---- MODULE Spec2Model ----
(***************************************************************************)
(* Model of the vote-budget engine of bun-alpine: the POST /app/vote       *)
(* handler of index.ts, the validators of src/services/voteService.ts and  *)
(* the queries of src/database/queries.ts, run against the PostgreSQL      *)
(* schema of src/database/schema.ts.                                       *)
(*                                                                         *)
(* Every await on a database query is a step of its own, so requests       *)
(* interleave exactly where the code yields.                               *)
(*                                                                         *)
(* Numbers that arrive in a request body are JavaScript numbers and need   *)
(* not be integers.  They are modelled in fixed point with one binary      *)
(* fractional digit: the number x is represented by 2*x (Num(3) is 3,      *)
(* Num(2) + Half is 2.5).  Values stored in or read from the database are  *)
(* INTEGER columns and are plain integers.                                 *)
(***************************************************************************)
EXTENDS Integers, Sequences, FiniteSets, TLC

VARIABLES votes, total_votes, now, pc, req, vote, remainingPoints, response, ulv,
          attempts, lastRead

(* The users table and the upsertUser calls in progress.                   *)
VARIABLES users, up

(* The votes table of the slot model (one row per user, language and      *)
(* month) and the result of the last validateVote.                         *)
VARIABLES slotVotes, slotResult

core == <<votes, total_votes, now, pc, req, vote, remainingPoints, response, ulv,
          attempts, lastRead>>
userVars == <<users, up>>
(* The objects of the PostgreSQL schema, the versions recorded in the      *)
(* migrations table, the position of the running runMigrations and the     *)
(* history of the migration calls.                                         *)
VARIABLES schema, migrations, mig, hist

(* The browser page: the rankingApp object, the Alpine component made      *)
(* from it, the voteForLanguage calls on the component and the votes the   *)
(* server holds for the user of the page.                                  *)
VARIABLES app, component, calls, server

(* process.env.ADMIN_API_KEY of the server and the last request to        *)
(* GET /app/admin/stats with its response.                                 *)
VARIABLES ADMIN_API_KEY, adminStats

(* The last run of the reset-db script.                                    *)
VARIABLES script

(* The rows of the languages table with its id sequence, and the position *)
(* of the running seedLanguages.                                           *)
VARIABLES catalog, seeding

slotVars == <<slotVotes, slotResult>>
seedVars == <<catalog, seeding>>
dbVars == <<schema, migrations, mig, hist>>
clientVars == <<app, component, calls, server>>
adminVars == <<ADMIN_API_KEY, adminStats>>
scriptVars == <<script>>
aux == <<userVars, slotVars, dbVars, clientVars, adminVars, scriptVars, seedVars>>

exceptUsers == <<core, slotVars, dbVars, clientVars, adminVars, scriptVars, seedVars>>
exceptSlots == <<core, userVars, dbVars, clientVars, adminVars, scriptVars, seedVars>>
exceptDb == <<core, userVars, slotVars, clientVars, adminVars, scriptVars, seedVars>>
exceptClient == <<core, userVars, slotVars, dbVars, adminVars, scriptVars, seedVars>>
exceptAdmin == <<core, userVars, slotVars, dbVars, clientVars, scriptVars, seedVars>>
exceptScript == <<core, userVars, slotVars, dbVars, clientVars, adminVars, seedVars>>
exceptSeed == <<core, userVars, slotVars, dbVars, clientVars, adminVars, scriptVars>>

vars == <<core, aux>>

(* ----------------------------- bounds ---------------------------------- *)

(* SpecSerial runs one request at a time, on every kind of input, over a   *)
(* month boundary; its ledger holds at most MaxVotes rows.  Spec runs two  *)
(* requests at once, of either user, within one month; its ledger holds at *)
(* most MaxRaceVotes rows.                                                 *)
MaxVotes == 3
MaxRaceVotes == 3

Proc == {1, 2}
Users == {1, 2}
Languages == {1, 2, 3}
Months == {1, 2}

(* ------------------------ JavaScript numbers --------------------------- *)

Num(i) == 2 * i
Half == 1
IsInteger(x) == x % 2 = 0
ToInt(x) == x \div 2

NoUser == 0
MissingLanguage == 4

SerialUsers == {1}
UserInputs == SerialUsers \cup {NoUser}
LanguageInputs == Languages \cup {0, MissingLanguage}
PointsInputs == {Num(-1), Num(0), Num(2), Num(2) + Half, Num(3), Num(5), Num(6)}

StoreUsers == {1}
StoreLanguages == {1, 2}
StorePoints == {Num(2), Num(5)}

ReadUsers == {1}
ReadLanguages == {1, 2}
ReadPoints == {Num(2), Num(3)}

RaceUsers == {1, 2}
RaceLanguages == {1, 2}
RacePoints == {Num(5)}

(* ------------------------------ queries -------------------------------- *)

RECURSIVE SumPoints(_)
SumPoints(rows) ==
  IF rows = <<>> THEN 0 ELSE Head(rows).points + SumPoints(Tail(rows))

RECURSIVE InsertByPointsDesc(_, _)
InsertByPointsDesc(row, sorted) ==
  IF sorted = <<>> THEN <<row>>
  ELSE IF Head(sorted).points >= row.points
       THEN <<Head(sorted)>> \o InsertByPointsDesc(row, Tail(sorted))
       ELSE <<row>> \o sorted

RECURSIVE OrderByPointsDesc(_)
OrderByPointsDesc(rows) ==
  IF rows = <<>> THEN <<>>
  ELSE InsertByPointsDesc(rows[Len(rows)], OrderByPointsDesc(SubSeq(rows, 1, Len(rows) - 1)))

IsUserMonthRow_AnyMonth(row, userId, month) == row.user_id = userId

IsUserMonthRow(row, userId, month) == row.user_id = userId /\ row.vote_month = month

getUserMonthlyVotes(table, userId, month) ==
  LET IsHit(row) == IsUserMonthRow(row, userId, month)
  IN  OrderByPointsDesc(SelectSeq(table, IsHit))

getUserMonthlyPoints_AnyUser(table, userId, month) ==
  LET IsHit(row) == row.vote_month = month
      hits == SelectSeq(table, IsHit)
  IN  [total_points |-> SumPoints(hits), votes_count |-> Len(hits)]

getUserMonthlyPoints(table, userId, month) ==
  LET IsHit(row) == IsUserMonthRow(row, userId, month)
      hits == SelectSeq(table, IsHit)
  IN  [total_points |-> SumPoints(hits), votes_count |-> Len(hits)]

LanguageTotal(table, languageId) ==
  LET IsHit(row) == row.language_id = languageId
  IN  SumPoints(SelectSeq(table, IsHit))

currentLanguagePoints(rows, languageId) ==
  LET IsHit(v) == v.language_id = languageId
  IN  SumPoints(SelectSeq(rows, IsHit))

(* ----------------------------- validators ------------------------------ *)

Valid == [isValid |-> TRUE, kind |-> "none", current |-> 0, remaining |-> 0]
Invalid(kind, current, remaining) ==
  [isValid |-> FALSE, kind |-> kind, current |-> current, remaining |-> remaining]

validateBasicRules(points) ==
  IF points < Num(1) \/ points > Num(5)
  THEN Invalid("range", 0, 0)
  ELSE Valid

validateLanguageLimit_AlreadyOver(rows, languageId, pointsToAdd) ==
  LET current == currentLanguagePoints(rows, languageId)
  IN  IF Num(current) > Num(5)
      THEN Invalid("language", current, 5 - current)
      ELSE Valid

validateLanguageLimit_HeadroomOfRequest(rows, languageId, pointsToAdd) ==
  LET current == currentLanguagePoints(rows, languageId)
  IN  IF Num(current) + pointsToAdd > Num(5)
      THEN Invalid("language", current, 5 - ToInt(pointsToAdd))
      ELSE Valid

validateLanguageLimit(rows, languageId, pointsToAdd) ==
  LET current == currentLanguagePoints(rows, languageId)
  IN  IF Num(current) + pointsToAdd > Num(5)
      THEN Invalid("language", current, 5 - current)
      ELSE Valid

validateTotalPoints_AlreadyOver(monthlyPoints, pointsToAdd) ==
  IF Num(monthlyPoints.total_points) > Num(10)
  THEN Invalid("total", monthlyPoints.total_points, 10 - monthlyPoints.total_points)
  ELSE Valid

validateTotalPoints(monthlyPoints, pointsToAdd) ==
  IF Num(monthlyPoints.total_points) + pointsToAdd > Num(10)
  THEN Invalid("total", monthlyPoints.total_points, 10 - monthlyPoints.total_points)
  ELSE Valid

(* --------------------------- request state ----------------------------- *)

NoRequest == [user |-> NoUser, languageId |-> 0, points |-> 0, month |-> 0]
NoVote == [id |-> 0, user_id |-> 0, language_id |-> 0, points |-> 0, vote_month |-> 0]
NoResponse ==
  [status |-> 0, kind |-> "none", current |-> 0, remaining |-> 0,
   vote |-> NoVote, remaining_points |-> 0, language_total_points |-> 0]
NoTask == [stage |-> "idle", languageId |-> 0, total |-> 0]

(* The answer of the last read endpoint served: which endpoint, for which  *)
(* user and month, the number of votes rows there were when it was served, *)
(* and its body (the fields of GET /app/user/votes, or the rows of a       *)
(* ranking).                                                               *)
NoRead ==
  [endpoint |-> "none", user |-> NoUser, month |-> 0, ledger |-> 0,
   votePoints |-> <<>>, totalPoints |-> 0, remainingPoints |-> 0, votesCount |-> 0,
   rows |-> <<>>]

ErrorResponse(status, kind, current, remaining) ==
  [NoResponse EXCEPT !.status = status, !.kind = kind,
                     !.current = current, !.remaining = remaining]

ValidationResponse(validation) ==
  ErrorResponse(400, validation.kind, validation.current, validation.remaining)

(* ------------------------------- users -------------------------------- *)

Calls == {1, 2}
GithubIds == {101, 102}
Usernames == {"ada", "bob"}
AvatarUrls == {"", "a.png"}

NoCall == [stage |-> "idle", githubId |-> 0, username |-> "", avatarUrl |-> ""]

InitUsers ==
  /\ users = <<>>
  /\ up = [c \in Calls |-> NoCall]

HasGithubId(table, githubId) == \E i \in 1..Len(table) : table[i].github_id = githubId

(* upsertUser is called and sends SELECT * FROM users WHERE github_id.     *)
UpsertUser(c) ==
  /\ up[c].stage = "idle"
  /\ \E githubId \in GithubIds, username \in Usernames, avatarUrl \in AvatarUrls :
       up' = [up EXCEPT ![c] = [stage |-> "select", githubId |-> githubId,
                                username |-> username, avatarUrl |-> avatarUrl]]
  /\ UNCHANGED <<users, exceptUsers>>

(* The SELECT returns: existing.length > 0 chooses UPDATE, else INSERT.    *)
UpsertUserSelected(c) ==
  /\ up[c].stage = "select"
  /\ up' = [up EXCEPT ![c].stage =
              IF HasGithubId(users, up[c].githubId) THEN "update" ELSE "insert"]
  /\ UNCHANGED <<users, exceptUsers>>

(* UPDATE users SET username, avatar_url WHERE github_id RETURNING *.      *)
UpsertUserUpdate(c) ==
  /\ up[c].stage = "update"
  /\ users' = [i \in 1..Len(users) |->
                 IF users[i].github_id = up[c].githubId
                 THEN [users[i] EXCEPT !.username = up[c].username,
                                       !.avatar_url = up[c].avatarUrl]
                 ELSE users[i]]
  /\ up' = [up EXCEPT ![c].stage = "returned"]
  /\ UNCHANGED exceptUsers

(* INSERT INTO users ... RETURNING *: github_id is UNIQUE, so the INSERT   *)
(* throws when a row with the github_id has appeared since the SELECT.     *)
UpsertUserInsert(c) ==
  /\ up[c].stage = "insert"
  /\ IF HasGithubId(users, up[c].githubId)
     THEN /\ up' = [up EXCEPT ![c].stage = "thrown"]
          /\ UNCHANGED users
     ELSE /\ users' = Append(users, [id |-> Len(users) + 1, github_id |-> up[c].githubId,
                                     username |-> up[c].username,
                                     avatar_url |-> up[c].avatarUrl])
          /\ up' = [up EXCEPT ![c].stage = "returned"]
  /\ UNCHANGED exceptUsers

(* The caller has the row, or the exception.                               *)
UpsertUserEnds(c) ==
  /\ up[c].stage \in {"returned", "thrown"}
  /\ up' = [up EXCEPT ![c] = NoCall]
  /\ UNCHANGED <<users, exceptUsers>>

NextUsers ==
  \/ \E c \in Calls : UpsertUser(c)
  \/ \E c \in Calls : UpsertUserSelected(c)
  \/ \E c \in Calls : UpsertUserUpdate(c)
  \/ \E c \in Calls : UpsertUserInsert(c)
  \/ \E c \in Calls : UpsertUserEnds(c)

(* ----------------------------- slot model ------------------------------ *)

SlotUsers == {1}
SlotMonths == {1}
SlotPoints == {Num(0), Num(1), Num(2), Num(2) + Half, Num(3), Num(4), Num(5), Num(6)}

InitSlots ==
  /\ slotVotes = <<>>
  /\ slotResult = "none"

getSlotValidation_Slot5Free(rows) ==
  [slot5Used |-> FALSE,
   slot3Used |-> \E i \in 1..Len(rows) : rows[i].points = 3,
   slot2Used |-> \E i \in 1..Len(rows) : rows[i].points = 2]

getSlotValidation(rows) ==
  [slot5Used |-> \E i \in 1..Len(rows) : rows[i].points = 5,
   slot3Used |-> \E i \in 1..Len(rows) : rows[i].points = 3,
   slot2Used |-> \E i \in 1..Len(rows) : rows[i].points = 2]

validateVoteSlots(table, userId, languageId, points, month) ==
  LET userVotes == getUserMonthlyVotes(table, userId, month)
      IsOther(v) == v.language_id # languageId
      otherVotes == SelectSeq(userVotes, IsOther)
      slotValidation == getSlotValidation(otherVotes)
  IN  IF points < Num(1) \/ points > Num(5) THEN "range"
      ELSE IF points = Num(5) /\ slotValidation.slot5Used THEN "slot5"
      ELSE IF points = Num(3) /\ slotValidation.slot3Used THEN "slot3"
      ELSE IF points = Num(2) /\ slotValidation.slot2Used THEN "slot2"
      ELSE "valid"

validateTotalPointsSlots(table, userId, languageId, points, month) ==
  LET monthlyPoints == getUserMonthlyPoints(table, userId, month)
      IsSame(v) == v.language_id = languageId
      existing == SelectSeq(getUserMonthlyVotes(table, userId, month), IsSame)
      currentVotePoints == IF existing # <<>> THEN Head(existing).points ELSE 0
      pointsDifference == points - Num(currentVotePoints)
  IN  IF Num(monthlyPoints.total_points) + pointsDifference > Num(10)
      THEN "total"
      ELSE "valid"

validateVote(table, userId, languageId, points, month) ==
  LET totalValidation == validateTotalPointsSlots(table, userId, languageId, points, month)
      slotValidation == validateVoteSlots(table, userId, languageId, points, month)
  IN  IF totalValidation # "valid" THEN totalValidation
      ELSE IF slotValidation # "valid" THEN slotValidation
      ELSE "valid"

(* INSERT ... ON CONFLICT (user_id, language_id, vote_month) DO UPDATE SET *)
(* points = EXCLUDED.points.                                               *)
upsertVote(table, userId, languageId, points, month) ==
  LET SameKey(i) == /\ table[i].user_id = userId
                    /\ table[i].language_id = languageId
                    /\ table[i].vote_month = month
  IN  IF \E i \in 1..Len(table) : SameKey(i)
      THEN [i \in 1..Len(table) |->
              IF SameKey(i) THEN [table[i] EXCEPT !.points = points] ELSE table[i]]
      ELSE Append(table, [id |-> Len(table) + 1, user_id |-> userId,
                          language_id |-> languageId, points |-> points,
                          vote_month |-> month])

(* A vote of the slot model: validateVote, and upsertVote when it accepts. *)
(* The points column is an INTEGER, which a fractional number cannot be    *)
(* stored in.                                                              *)
SlotVote ==
  \E userId \in SlotUsers, languageId \in Languages, points \in SlotPoints, month \in SlotMonths :
    LET result == validateVote(slotVotes, userId, languageId, points, month)
    IN  /\ slotResult' = IF result = "valid" /\ ~IsInteger(points) THEN "store" ELSE result
        /\ slotVotes' = IF result = "valid" /\ IsInteger(points)
                        THEN upsertVote(slotVotes, userId, languageId, ToInt(points), month)
                        ELSE slotVotes
        /\ UNCHANGED exceptSlots

(* ----------------------------- migrations ------------------------------ *)

MaxRuns == 3
MaxRollbacks == 2

Versions == {"001", "002", "003"}
RollbackInputs == Versions \cup {"004"}

Tables == {"users", "languages", "votes", "user_monthly_votes"}

(* The table or view an index, trigger or view is built on.                *)
On ==
  [o \in {"idx_votes_month", "idx_votes_user_month", "idx_votes_language_month",
          "idx_votes_user_language_month", "idx_votes_month_points",
          "update_language_total_votes_trigger"} |-> "votes"]
  @@ [o \in {"idx_languages_featured", "idx_languages_total_votes",
             "idx_languages_featured_true", "language_rankings"} |-> "languages"]
  @@ [o \in {"idx_user_monthly_votes", "update_user_monthly_votes_updated_at"}
        |-> "user_monthly_votes"]
  @@ [o \in {"update_users_updated_at"} |-> "users"]
  @@ [o \in {"idx_language_rankings_id"} |-> "language_rankings"]

(* DROP ... CASCADE of a table or view: the object, what is built on it    *)
(* and what is built on that.                                              *)
DropCascade(objects, t) ==
  LET direct == {o \in DOMAIN On : On[o] = t}
      indirect == {o \in DOMAIN On : On[o] \in direct}
  IN  objects \ ({t} \cup direct \cup indirect)

createTables(objects) ==
  objects \cup Tables
          \cup {"idx_votes_month", "idx_votes_user_month", "idx_votes_language_month",
                "idx_languages_featured", "idx_user_monthly_votes",
                "idx_languages_total_votes", "update_updated_at_column",
                "update_users_updated_at", "update_user_monthly_votes_updated_at"}

cumulative_voting(objects) ==
  objects \cup {"idx_votes_user_language_month", "update_language_total_votes",
                "update_language_total_votes_trigger"}

postgresql_optimizations(objects) ==
  objects \cup {"idx_languages_featured_true", "idx_votes_month_points",
                "language_rankings", "idx_language_rankings_id"}

InitDb ==
  /\ schema = {}
  /\ migrations = <<>>
  /\ mig = [stage |-> "idle", result |-> "none"]
  /\ hist = [bodies |-> <<>>, runs |-> 0, rollbacks |-> 0, restoring |-> "none"]

isMigrationExecuted_Never(version) == FALSE

isMigrationExecuted(version) ==
  \E i \in 1..Len(migrations) : migrations[i] = version

(* One migration function: return when the version is recorded, else run   *)
(* the body and INSERT the version (version is UNIQUE).                    *)
Migration(version, migrated, next) ==
  IF isMigrationExecuted(version)
  THEN /\ mig' = [mig EXCEPT !.stage = next]
       /\ UNCHANGED <<schema, migrations, hist>>
  ELSE /\ schema' = migrated
       /\ hist' = [hist EXCEPT !.bodies = Append(@, version)]
       /\ IF \E i \in 1..Len(migrations) : migrations[i] = version
          THEN /\ mig' = [mig EXCEPT !.stage = "end", !.result = "thrown"]
               /\ UNCHANGED migrations
          ELSE /\ mig' = [mig EXCEPT !.stage = next]
               /\ migrations' = Append(migrations, version)

(* runMigrations up to the end of createMigrationsTable.                   *)
RunMigrations ==
  /\ mig.stage = "idle"
  /\ hist.runs < MaxRuns
  /\ schema' = schema \cup {"migrations"}
  /\ mig' = [stage |-> "001", result |-> "none"]
  /\ hist' = [hist EXCEPT !.runs = @ + 1]
  /\ UNCHANGED <<migrations, exceptDb>>

migration001_initial ==
  /\ mig.stage = "001"
  /\ Migration("001", createTables(schema), "002")
  /\ UNCHANGED exceptDb

migration002_cumulative_voting ==
  /\ mig.stage = "002"
  /\ Migration("002", cumulative_voting(schema), "003")
  /\ UNCHANGED exceptDb

migration003_postgresql_optimizations ==
  /\ mig.stage = "003"
  /\ Migration("003", postgresql_optimizations(schema), "end")
  /\ UNCHANGED exceptDb

RunMigrationsEnds ==
  /\ mig.stage = "end"
  /\ mig' = [stage |-> "idle",
             result |-> IF mig.result = "thrown" THEN "thrown" ELSE "completed"]
  /\ UNCHANGED <<schema, migrations, hist, exceptDb>>

FullyMigrated ==
  /\ Tables \subseteq schema
  /\ "update_language_total_votes_trigger" \in schema
  /\ "language_rankings" \in schema
  /\ \A v \in Versions :
       Cardinality({i \in 1..Len(migrations) : migrations[i] = v}) = 1

DeleteVersion(table, version) ==
  LET Other(v) == v # version IN SelectSeq(table, Other)

Dropped(objects, version) ==
  CASE version = "003" ->
         DropCascade(objects, "language_rankings")
           \ {"idx_languages_featured_true", "idx_votes_month_points"}
    [] version = "002" ->
         objects \ {"update_language_total_votes_trigger", "update_language_total_votes",
                    "idx_votes_user_language_month"}
    [] version = "001" ->
         DropCascade(DropCascade(DropCascade(DropCascade(objects,
           "votes"), "user_monthly_votes"), "users"), "languages")
    [] OTHER -> objects

(* rollbackMigration(version), called while no runMigrations is running:   *)
(* the drops of the version, then DELETE FROM migrations.                  *)
RollbackMigration ==
  \E version \in RollbackInputs :
    /\ mig.stage = "idle"
    /\ hist.rollbacks < MaxRollbacks
    /\ schema' = Dropped(schema, version)
    /\ IF version \in Versions /\ "migrations" \in schema
       THEN /\ migrations' = DeleteVersion(migrations, version)
            /\ mig' = [mig EXCEPT !.result = "rolled back"]
       ELSE /\ mig' = [mig EXCEPT !.result = "thrown"]
            /\ UNCHANGED migrations
    /\ hist' = [hist EXCEPT !.rollbacks = @ + 1,
                            !.restoring = IF FullyMigrated /\ version \in Versions
                                          THEN version ELSE "none"]
    /\ UNCHANGED exceptDb

NextMigrations ==
  \/ RunMigrations
  \/ migration001_initial
  \/ migration002_cumulative_voting
  \/ migration003_postgresql_optimizations
  \/ RunMigrationsEnds
  \/ RollbackMigration

(* ------------------------------- client -------------------------------- *)

RECURSIVE SumValues(_)
SumValues(f) ==
  IF DOMAIN f = {} THEN 0
  ELSE LET l == CHOOSE x \in DOMAIN f : TRUE
       IN  f[l] + SumValues([x \in DOMAIN f \ {l} |-> f[x]])

ClientCalls == {1, 2}
NaN == 0 - 1

(* What the vote button passes as points: a number, or the text of an      *)
(* input as its sequence of digits.                                        *)
ClientPoints ==
  {[type |-> "number", value |-> n] : n \in {0, 3, 5, 6}}
    \cup {[type |-> "string", value |-> t] : t \in {<<>>, <<5>>}}

RECURSIVE parseInt(_)
parseInt(text) ==
  IF text = <<>> THEN NaN
  ELSE IF Len(text) = 1 THEN text[1]
  ELSE 10 * parseInt(SubSeq(text, 1, Len(text) - 1)) + text[Len(text)]

NumPoints(points) ==
  IF points.type = "string" THEN parseInt(points.value) ELSE points.value

NoVotePoints == [l \in Languages |-> 0]

rankingApp ==
  [isAuthenticated |-> FALSE, votePoints |-> NoVotePoints, pointsUsed |-> 0,
   votingInProgress |-> FALSE]

NoClientCall == [stage |-> "idle", languageId |-> 0, numPoints |-> 0]

InitClient ==
  /\ app = rankingApp
  /\ component = rankingApp
  /\ calls = [c \in ClientCalls |-> NoClientCall]
  /\ server = NoVotePoints

(* canVote with `this` bound to the object o.                              *)
canVote(o, languageId, points) ==
  LET numPoints == NumPoints(points)
  IN  IF ~o.isAuthenticated THEN FALSE
      ELSE IF numPoints = NaN \/ numPoints = 0 \/ numPoints <= 0 \/ numPoints > 5 THEN FALSE
      ELSE IF o.votingInProgress THEN FALSE
      ELSE o.pointsUsed - o.votePoints[languageId] + numPoints <= 10

updatePointsUsed(votePoints) == SumValues(votePoints)

(* init() with `this` bound to an object: checkAuth, then loadUserVotes    *)
(* when authenticated.                                                     *)
init(o, authenticated) ==
  IF authenticated
  THEN [o EXCEPT !.isAuthenticated = TRUE, !.votePoints = server,
                 !.pointsUsed = SumValues(server)]
  ELSE [o EXCEPT !.isAuthenticated = FALSE]

(* The page is loaded: Alpine makes the component from a copy of           *)
(* rankingApp and runs its init(), and DOMContentLoaded runs               *)
(* rankingApp.init().                                                      *)
PageLoad ==
  \E authenticated \in BOOLEAN :
    /\ app' = init(rankingApp, authenticated)
    /\ component' = init(rankingApp, authenticated)
    /\ calls' = [c \in ClientCalls |-> NoClientCall]
    /\ UNCHANGED <<server, exceptClient>>

(* voteForLanguage on the component up to the fetch: `this` is the         *)
(* component, this.canVote is rankingApp.canVote bound to rankingApp.      *)
VoteForLanguage(c) ==
  \E languageId \in Languages, points \in ClientPoints :
    /\ calls[c].stage \in {"idle", "login", "refused"}
    /\ IF ~component.isAuthenticated
       THEN /\ calls' = [calls EXCEPT ![c] = [NoClientCall EXCEPT !.stage = "login"]]
            /\ UNCHANGED component
       ELSE IF ~canVote(app, languageId, [type |-> "number", value |-> NumPoints(points)])
       THEN /\ calls' = [calls EXCEPT ![c] = [NoClientCall EXCEPT !.stage = "refused"]]
            /\ UNCHANGED component
       ELSE /\ component' = [component EXCEPT !.votingInProgress = TRUE]
            /\ calls' = [calls EXCEPT ![c] =
                           [stage |-> "fetch", languageId |-> languageId,
                            numPoints |-> NumPoints(points)]]
    /\ UNCHANGED <<app, server, exceptClient>>

(* The answer to POST /app/vote arrives: on success the component's points *)
(* are updated and the ranking is fetched, otherwise the error is shown    *)
(* and the finally block runs.                                             *)
VoteAnswered(c) ==
  \E success \in BOOLEAN :
    /\ calls[c].stage = "fetch"
    /\ IF success
       THEN LET votePoints == [component.votePoints EXCEPT
                                 ![calls[c].languageId] = calls[c].numPoints]
            IN  /\ component' = [component EXCEPT !.votePoints = votePoints,
                                                  !.pointsUsed = updatePointsUsed(votePoints)]
                /\ server' = [server EXCEPT ![calls[c].languageId] = calls[c].numPoints]
                /\ calls' = [calls EXCEPT ![c].stage = "update"]
       ELSE /\ component' = [component EXCEPT !.votingInProgress = FALSE]
            /\ calls' = [calls EXCEPT ![c] = NoClientCall]
            /\ UNCHANGED server
    /\ UNCHANGED <<app, exceptClient>>

(* updateLanguageRanking and loadRankingStats are done: the finally block. *)
VoteEnds(c) ==
  /\ calls[c].stage = "update"
  /\ component' = [component EXCEPT !.votingInProgress = FALSE]
  /\ calls' = [calls EXCEPT ![c] = NoClientCall]
  /\ UNCHANGED <<app, server, exceptClient>>

NextClient ==
  \/ PageLoad
  \/ \E c \in ClientCalls : VoteForLanguage(c) \/ VoteAnswered(c) \/ VoteEnds(c)

(* -------------------------------- admin -------------------------------- *)

(* A string is the sequence of its pieces: a piece is a space or a word    *)
(* without spaces; the empty sequence is the empty string and stands for   *)
(* an unset variable and a missing header as well (all are falsy).         *)
Pieces == {"Bearer", "Basic", "k1", " "}
MaxHeader == 5

AdminKeys == {<<>>, <<"k1">>, <<"k1", "k1">>}

(* The values of the Authorization header as the handler gets them: the    *)
(* HTTP parser has removed the spaces around the value.                    *)
AuthorizationHeaders ==
  {h \in UNION {[1..n -> Pieces] : n \in 0..MaxHeader} :
     h # <<>> => h[1] # " " /\ h[Len(h)] # " "}

(* text.split(" ")                                                         *)
RECURSIVE split(_)
split(text) ==
  IF \A i \in 1..Len(text) : text[i] # " " THEN <<text>>
  ELSE LET i == CHOOSE k \in 1..Len(text) :
                  text[k] = " " /\ \A j \in 1..(k - 1) : text[j] # " "
       IN  <<SubSeq(text, 1, i - 1)>> \o split(SubSeq(text, i + 1, Len(text)))

StatsFields ==
  {"timestamp", "environment", "database", "current_month", "monthly_stats", "system"}

NoAdminStats == [authorization |-> <<>>, fields |-> {}, message |-> ""]

InitAdmin ==
  /\ ADMIN_API_KEY = <<>>
  /\ adminStats = NoAdminStats

(* The server process starts with its environment.                         *)
ServerStart ==
  \E key \in AdminKeys :
    /\ ADMIN_API_KEY' = key
    /\ adminStats' = NoAdminStats
    /\ UNCHANGED exceptAdmin

StatsFailed(authorization, message) ==
  [authorization |-> authorization, fields |-> {"error", "message"}, message |-> message]

(* GET /app/admin/stats                                                    *)
GetAdminStats ==
  \E authHeader \in AuthorizationHeaders :
    LET adminApiKey == ADMIN_API_KEY
        parts == split(authHeader)
        scheme == parts[1]
        token == IF Len(parts) >= 2 THEN parts[2] ELSE <<>>
    IN  /\ adminStats' =
             IF adminApiKey = <<>>
             THEN StatsFailed(authHeader, "Admin API key not configured")
             ELSE IF authHeader = <<>>
             THEN StatsFailed(authHeader, "Authorization header required")
             ELSE IF scheme # <<"Bearer">> \/ token = <<>> \/ token # adminApiKey
             THEN StatsFailed(authHeader, "Invalid admin API key")
             ELSE [authorization |-> authHeader, fields |-> StatsFields, message |-> ""]
        /\ UNCHANGED <<ADMIN_API_KEY, exceptAdmin>>

NextAdmin == ServerStart \/ GetAdminStats

(* ------------------------------ reset-db ------------------------------- *)

NodeEnvs == {"production", "development", ""}

NoScript == [NODE_ENV |-> "", exit |-> "none", log |-> <<>>, resetDatabase |-> "not called"]

InitScript == script = NoScript

(* One run of the reset-db script, from its first statement to its         *)
(* process.exit. resetDatabase is an async function and the script does    *)
(* not await it: the call runs up to its first await and gives back a      *)
(* pending promise, the script logs, and process.exit(0) ends the process  *)
(* before the function is resumed, so none of its statements addresses the *)
(* database.                                                               *)
ResetDb ==
  \E env \in NodeEnvs :
    /\ mig.stage = "idle"
    /\ script' =
         IF env = "production"
         THEN [NODE_ENV |-> env, exit |-> "1",
               log |-> <<"Cannot reset database in production environment">>,
               resetDatabase |-> "not called"]
         ELSE [NODE_ENV |-> env, exit |-> "0",
               log |-> <<"Starting database reset...", "Resetting PostgreSQL database...",
                         "Database reset completed successfully!">>,
               resetDatabase |-> "await import"]
    /\ UNCHANGED exceptScript

(* ------------------------------- seeding ------------------------------- *)

MaxSeedRuns == 2
MaxSeedTotal == 5

(* The first rows of the seed data.                                        *)
languages == <<"JavaScript", "Python", "TypeScript">>
SeedVotePoints == {2, 3}

InitSeed ==
  /\ catalog = [rows |-> <<>>, languages_id_seq |-> 0]
  /\ seeding = [next |-> 0, runs |-> 0]

HasName(rows, n) == \E i \in 1..Len(rows) : rows[i].name = n

(* INSERT OR REPLACE: the row of the name is deleted and a new one is      *)
(* inserted.                                                               *)
InsertLanguage_OrReplace(table, n) ==
  LET Other(r) == r.name # n
  IN  [rows |-> Append(SelectSeq(table.rows, Other),
                       [id |-> table.languages_id_seq + 1, name |-> n, total_votes |-> 0]),
       languages_id_seq |-> table.languages_id_seq + 1]

(* INSERT INTO languages ... ON CONFLICT (name) DO NOTHING: the id is      *)
(* taken from the sequence before the conflict is seen.                    *)
InsertLanguage(table, n) ==
  [rows |-> IF HasName(table.rows, n) THEN table.rows
            ELSE Append(table.rows,
                        [id |-> table.languages_id_seq + 1, name |-> n, total_votes |-> 0]),
   languages_id_seq |-> table.languages_id_seq + 1]

(* seedLanguages is called (once per server start).                        *)
SeedLanguages ==
  /\ seeding.next = 0
  /\ seeding.runs < MaxSeedRuns
  /\ seeding' = [next |-> 1, runs |-> seeding.runs + 1]
  /\ UNCHANGED <<catalog, exceptSeed>>

(* One turn of the loop over the seed data.                                *)
SeedInsert ==
  /\ seeding.next \in 1..Len(languages)
  /\ catalog' = InsertLanguage(catalog, languages[seeding.next])
  /\ seeding' = [seeding EXCEPT !.next = IF @ = Len(languages) THEN 0 ELSE @ + 1]
  /\ UNCHANGED exceptSeed

(* An accepted vote: the trigger on votes adds its points to total_votes   *)
(* of the language.                                                        *)
VoteCounted ==
  \E i \in 1..Len(catalog.rows), points \in SeedVotePoints :
    /\ catalog.rows[i].total_votes + points <= MaxSeedTotal
    /\ catalog' = [catalog EXCEPT !.rows[i].total_votes = @ + points]
    /\ UNCHANGED <<seeding, exceptSeed>>

NextSeed == SeedLanguages \/ SeedInsert \/ VoteCounted

Init ==
  /\ votes = <<>>
  /\ total_votes = [l \in Languages |-> 0]
  /\ now = 1
  /\ pc = [p \in Proc |-> "idle"]
  /\ req = [p \in Proc |-> NoRequest]
  /\ vote = [p \in Proc |-> NoVote]
  /\ remainingPoints = [p \in Proc |-> 0]
  /\ response = [p \in Proc |-> NoResponse]
  /\ ulv = [p \in Proc |-> NoTask]
  /\ attempts = [p \in Proc |-> 0]
  /\ lastRead = NoRead
  /\ InitUsers
  /\ InitSlots
  /\ InitDb
  /\ InitClient
  /\ InitAdmin
  /\ InitScript
  /\ InitSeed

(* The handler answers and returns: pc "respond" holds the response until  *)
(* it is delivered.                                                        *)
Reply(p, r) ==
  /\ pc' = [pc EXCEPT ![p] = "respond"]
  /\ response' = [response EXCEPT ![p] = r]

(* --------------------------- POST /app/vote ---------------------------- *)

PostVote_RequiredFirst(p, userInputs, languageInputs, pointsInputs) ==
  /\ pc[p] = "idle"
  /\ ulv[p].stage = "idle"
  /\ \E user \in userInputs, languageId \in languageInputs, points \in pointsInputs :
       /\ req' = [req EXCEPT ![p] = [user |-> user, languageId |-> languageId,
                                     points |-> points, month |-> now]]
       /\ IF languageId = 0 \/ points = 0
          THEN Reply(p, ErrorResponse(400, "required", 0, 0))
          ELSE IF user = NoUser
          THEN Reply(p, ErrorResponse(401, "auth", 0, 0))
          ELSE IF ~validateBasicRules(points).isValid
          THEN Reply(p, ValidationResponse(validateBasicRules(points)))
          ELSE /\ pc' = [pc EXCEPT ![p] = "validateLanguageLimit"]
               /\ UNCHANGED response
  /\ UNCHANGED <<votes, total_votes, now, vote, remainingPoints, ulv, attempts, lastRead, aux>>

(* From the entry of the handler to the first query of validateAddVote.    *)
PostVote(p, userInputs, languageInputs, pointsInputs) ==
  /\ pc[p] = "idle"
  /\ ulv[p].stage = "idle"
  /\ \E user \in userInputs, languageId \in languageInputs, points \in pointsInputs :
       /\ req' = [req EXCEPT ![p] = [user |-> user, languageId |-> languageId,
                                     points |-> points, month |-> now]]
       /\ IF user = NoUser
          THEN Reply(p, ErrorResponse(401, "auth", 0, 0))
          ELSE IF languageId = 0 \/ points = 0
          THEN Reply(p, ErrorResponse(400, "required", 0, 0))
          ELSE IF ~validateBasicRules(points).isValid
          THEN Reply(p, ValidationResponse(validateBasicRules(points)))
          ELSE /\ pc' = [pc EXCEPT ![p] = "validateLanguageLimit"]
               /\ UNCHANGED response
  /\ UNCHANGED <<votes, total_votes, now, vote, remainingPoints, ulv, attempts, lastRead, aux>>

ValidateLanguageLimit_TotalFirst(p) ==
  /\ pc[p] = "validateLanguageLimit"
  /\ LET rows == getUserMonthlyVotes(votes, req[p].user, req[p].month)
         monthlyPoints == getUserMonthlyPoints(votes, req[p].user, req[p].month)
         totalValidation == validateTotalPoints(monthlyPoints, req[p].points)
         languageValidation == validateLanguageLimit(rows, req[p].languageId, req[p].points)
     IN  IF ~totalValidation.isValid
         THEN Reply(p, ValidationResponse(totalValidation))
         ELSE IF ~languageValidation.isValid
         THEN Reply(p, ValidationResponse(languageValidation))
         ELSE /\ pc' = [pc EXCEPT ![p] = "validateTotalPoints"]
              /\ UNCHANGED response
  /\ UNCHANGED <<votes, total_votes, now, req, vote, remainingPoints, ulv, attempts, lastRead, aux>>

(* getUserMonthlyVotes returns inside validateLanguageLimit.               *)
ValidateLanguageLimit(p) ==
  /\ pc[p] = "validateLanguageLimit"
  /\ LET rows == getUserMonthlyVotes(votes, req[p].user, req[p].month)
         languageValidation == validateLanguageLimit(rows, req[p].languageId, req[p].points)
     IN  IF ~languageValidation.isValid
         THEN Reply(p, ValidationResponse(languageValidation))
         ELSE /\ pc' = [pc EXCEPT ![p] = "validateTotalPoints"]
              /\ UNCHANGED response
  /\ UNCHANGED <<votes, total_votes, now, req, vote, remainingPoints, ulv, attempts, lastRead, aux>>

ValidateTotalPoints_WriteThenReject(p, maxVotes) ==
  /\ pc[p] = "validateTotalPoints"
  /\ LET monthlyPoints == getUserMonthlyPoints(votes, req[p].user, req[p].month)
         totalValidation == validateTotalPoints(monthlyPoints, req[p].points)
     IN  IF ~totalValidation.isValid
         THEN /\ Reply(p, ValidationResponse(totalValidation))
              /\ votes' = Append(votes, [id |-> Len(votes) + 1, user_id |-> req[p].user,
                                         language_id |-> req[p].languageId,
                                         points |-> ToInt(req[p].points),
                                         vote_month |-> req[p].month])
         ELSE /\ Len(votes) + Cardinality({q \in Proc : pc[q] = "addVote"}) < maxVotes
              /\ pc' = [pc EXCEPT ![p] = "addVote"]
              /\ UNCHANGED <<response, votes>>
  /\ UNCHANGED <<total_votes, now, req, vote, remainingPoints, ulv, attempts, lastRead, aux>>

(* getUserMonthlyPoints returns inside validateTotalPoints.                *)
ValidateTotalPoints(p, maxVotes) ==
  /\ pc[p] = "validateTotalPoints"
  /\ LET monthlyPoints == getUserMonthlyPoints(votes, req[p].user, req[p].month)
         totalValidation == validateTotalPoints(monthlyPoints, req[p].points)
     IN  IF ~totalValidation.isValid
         THEN Reply(p, ValidationResponse(totalValidation))
         ELSE /\ Len(votes) + Cardinality({q \in Proc : pc[q] = "addVote"}) < maxVotes
              /\ pc' = [pc EXCEPT ![p] = "addVote"]
              /\ UNCHANGED response
  /\ UNCHANGED <<votes, total_votes, now, req, vote, remainingPoints, ulv, attempts, lastRead, aux>>

(* The INSERT of insertVote against the votes table: the column is an      *)
(* INTEGER with CHECK (points >= 1 AND points <= 5) and language_id is a   *)
(* foreign key into languages.                                             *)
InsertAccepted(r) ==
  /\ IsInteger(r.points)
  /\ ToInt(r.points) >= 1 /\ ToInt(r.points) <= 5
  /\ r.languageId \in Languages
  /\ r.user # NoUser

NewRow(table, r) ==
  [id |-> Len(table) + 1, user_id |-> r.user, language_id |-> r.languageId,
   points |-> ToInt(r.points), vote_month |-> r.month]

insertVote_IfUnderCap(table, r) ==
  IF getUserMonthlyPoints(table, r.user, r.month).total_points + ToInt(r.points) <= 10
  THEN Append(table, NewRow(table, r))
  ELSE table

(* ON CONFLICT (user_id, language_id, vote_month) DO UPDATE, as in         *)
(* upsertVote.                                                             *)
insertVote_Upsert(table, r) ==
  LET SameKey(i) == /\ table[i].user_id = r.user
                    /\ table[i].language_id = r.languageId
                    /\ table[i].vote_month = r.month
  IN  IF \E i \in 1..Len(table) : SameKey(i)
      THEN [i \in 1..Len(table) |->
              IF SameKey(i) THEN [table[i] EXCEPT !.points = ToInt(r.points)] ELSE table[i]]
      ELSE Append(table, NewRow(table, r))

insertVote(table, r) == Append(table, NewRow(table, r))

(* The trigger update_language_total_votes_trigger, AFTER INSERT ON votes. *)
update_language_total_votes(totals, table, languageId) ==
  [totals EXCEPT ![languageId] = LanguageTotal(table, languageId)]

(* addVote returns: either the row is stored (and the trigger has run) and *)
(* the handler starts updateLanguageVotes without awaiting it and then     *)
(* queries the new monthly points, or the INSERT threw and the catch       *)
(* branch answers 500.                                                     *)
AddVote(p) ==
  /\ pc[p] = "addVote"
  /\ attempts' = [attempts EXCEPT ![p] = attempts[p] + 1]
  /\ IF InsertAccepted(req[p])
     THEN /\ votes' = insertVote(votes, req[p])
          /\ total_votes' = update_language_total_votes(total_votes, votes', req[p].languageId)
          /\ vote' = [vote EXCEPT ![p] = votes'[Len(votes')]]
          /\ ulv' = [ulv EXCEPT ![p] = [stage |-> "select", languageId |-> req[p].languageId, total |-> 0]]
          /\ pc' = [pc EXCEPT ![p] = "newMonthlyPoints"]
          /\ UNCHANGED response
     ELSE /\ Reply(p, ErrorResponse(500, "store", 0, 0))
          /\ UNCHANGED <<votes, total_votes, vote, ulv>>
  /\ UNCHANGED <<now, req, remainingPoints, lastRead, aux>>

NewMonthlyPoints_BeforeInsert(p) ==
  /\ pc[p] = "newMonthlyPoints"
  /\ LET newMonthlyPoints ==
           getUserMonthlyPoints(SubSeq(votes, 1, Len(votes) - 1), req[p].user, req[p].month)
     IN  remainingPoints' = [remainingPoints EXCEPT ![p] = 10 - newMonthlyPoints.total_points]
  /\ pc' = [pc EXCEPT ![p] = "allLanguageVotes"]
  /\ UNCHANGED <<votes, total_votes, now, req, vote, response, ulv, attempts, lastRead, aux>>

(* getUserMonthlyPoints returns after the insert.                          *)
NewMonthlyPoints(p) ==
  /\ pc[p] = "newMonthlyPoints"
  /\ LET newMonthlyPoints == getUserMonthlyPoints(votes, req[p].user, req[p].month)
     IN  remainingPoints' = [remainingPoints EXCEPT ![p] = 10 - newMonthlyPoints.total_points]
  /\ pc' = [pc EXCEPT ![p] = "allLanguageVotes"]
  /\ UNCHANGED <<votes, total_votes, now, req, vote, response, ulv, attempts, lastRead, aux>>

(* getUserMonthlyVotes returns after the insert; the success payload.      *)
AllLanguageVotes(p) ==
  /\ pc[p] = "allLanguageVotes"
  /\ LET allLanguageVotes == getUserMonthlyVotes(votes, req[p].user, req[p].month)
         languagePoints == currentLanguagePoints(allLanguageVotes, req[p].languageId)
     IN  Reply(p, [NoResponse EXCEPT !.status = 200, !.kind = "success",
                                     !.vote = vote[p],
                                     !.remaining_points = remainingPoints[p],
                                     !.language_total_points = languagePoints])
  /\ UNCHANGED <<votes, total_votes, now, req, vote, remainingPoints, ulv, attempts, lastRead, aux>>

(* The response leaves the server and the handler's locals are gone.       *)
Respond(p) ==
  /\ pc[p] = "respond"
  /\ pc' = [pc EXCEPT ![p] = "idle"]
  /\ req' = [req EXCEPT ![p] = NoRequest]
  /\ vote' = [vote EXCEPT ![p] = NoVote]
  /\ remainingPoints' = [remainingPoints EXCEPT ![p] = 0]
  /\ response' = [response EXCEPT ![p] = NoResponse]
  /\ attempts' = [attempts EXCEPT ![p] = 0]
  /\ UNCHANGED <<votes, total_votes, now, ulv, lastRead, aux>>

(* ---------------------- updateLanguageVotes ---------------------------- *)

(* The SELECT COALESCE(SUM(points), 0) of updateLanguageVotes.             *)
UpdateLanguageVotesSelect(p) ==
  /\ ulv[p].stage = "select"
  /\ ulv' = [ulv EXCEPT ![p] = [stage |-> "update", languageId |-> ulv[p].languageId,
                                total |-> LanguageTotal(votes, ulv[p].languageId)]]
  /\ UNCHANGED <<votes, total_votes, now, pc, req, vote, remainingPoints, response, attempts, lastRead, aux>>

(* The UPDATE languages SET total_votes of updateLanguageVotes.            *)
UpdateLanguageVotesUpdate(p) ==
  /\ ulv[p].stage = "update"
  /\ total_votes' = [total_votes EXCEPT ![ulv[p].languageId] = ulv[p].total]
  /\ ulv' = [ulv EXCEPT ![p] = NoTask]
  /\ UNCHANGED <<votes, now, pc, req, vote, remainingPoints, response, attempts, lastRead, aux>>

(* --------------------------- store failures ---------------------------- *)

(* The database connection can fail under any query.  A query awaited      *)
(* inside the try block of the handler rejects into its catch branch.      *)

(* voteQueries.addVote rejects: nothing is stored.                         *)
AddVoteFails(p) ==
  /\ pc[p] = "addVote"
  /\ attempts' = [attempts EXCEPT ![p] = attempts[p] + 1]
  /\ Reply(p, ErrorResponse(500, "store", 0, 0))
  /\ UNCHANGED <<votes, total_votes, now, req, vote, remainingPoints, ulv, lastRead, aux>>

(* getUserMonthlyPoints or getUserMonthlyVotes rejects after the insert.   *)
QueryAfterInsertFails(p) ==
  /\ pc[p] \in {"newMonthlyPoints", "allLanguageVotes"}
  /\ Reply(p, ErrorResponse(500, "store", 0, 0))
  /\ UNCHANGED <<votes, total_votes, now, req, vote, remainingPoints, ulv, attempts, lastRead, aux>>

(* The SELECT or the UPDATE of updateLanguageVotes rejects.  The handler   *)
(* did not await the call and attached no catch to it.                     *)
UpdateLanguageVotesFails(p) ==
  /\ ulv[p].stage \in {"select", "update"}
  /\ ulv' = [ulv EXCEPT ![p] = [stage |-> "failed", languageId |-> ulv[p].languageId,
                                total |-> ulv[p].total]]
  /\ UNCHANGED <<votes, total_votes, now, pc, req, vote, remainingPoints, response,
                 attempts, lastRead, aux>>

(* The rejected promise of updateLanguageVotes is dropped: no code of the  *)
(* handler observes it.                                                    *)
UnhandledRejection(p) ==
  /\ ulv[p].stage = "failed"
  /\ ulv' = [ulv EXCEPT ![p] = NoTask]
  /\ UNCHANGED <<votes, total_votes, now, pc, req, vote, remainingPoints, response,
                 attempts, lastRead, aux>>

(* ----------------------------- rankings -------------------------------- *)

(* languages.name, by alphabetical position.  Ids are given in insertion   *)
(* order, which is not the alphabetical one.                               *)
name == <<2, 1, 3>>

(* ORDER BY points DESC, l.name ASC.                                       *)
Before_TiesById(a, b, points) ==
  points[a] > points[b] \/ (points[a] = points[b] /\ a < b)

Before(a, b, points) ==
  points[a] > points[b] \/ (points[a] = points[b] /\ name[a] < name[b])

RECURSIVE InsertRanked(_, _, _)
InsertRanked(l, sorted, points) ==
  IF sorted = <<>> THEN <<l>>
  ELSE IF Before(l, Head(sorted), points)
       THEN <<l>> \o sorted
       ELSE <<Head(sorted)>> \o InsertRanked(l, Tail(sorted), points)

RECURSIVE OrderByPointsDescNameAsc(_, _)
OrderByPointsDescNameAsc(ids, points) ==
  IF ids = {} THEN <<>>
  ELSE LET l == CHOOSE x \in ids : TRUE
       IN  InsertRanked(l, OrderByPointsDescNameAsc(ids \ {l}, points), points)

(* ROW_NUMBER() OVER (ORDER BY ...): the position of the language in the   *)
(* window's order.                                                         *)
RowNumber(order, l) == CHOOSE i \in 1..Len(order) : order[i] = l

(* The subquery SELECT language_id, SUM(points) FROM votes WHERE           *)
(* vote_month = month GROUP BY language_id, left-joined with COALESCE 0.   *)
MonthVotes(table, month) ==
  [l \in Languages |->
     LET IsHit(row) == row.language_id = l /\ row.vote_month = month
     IN  SumPoints(SelectSeq(table, IsHit))]

getCompleteRanking(totals, table, currentMonth) ==
  LET order == OrderByPointsDescNameAsc(Languages, totals)
      current_month_votes == MonthVotes(table, currentMonth)
  IN  [i \in 1..Len(order) |->
         [id |-> order[i], name |-> name[order[i]], total_votes |-> totals[order[i]],
          current_month_points |-> current_month_votes[order[i]],
          rank_position |-> RowNumber(order, order[i])]]

(* LIMIT limit.                                                            *)
Limit(rows, limit) ==
  SubSeq(rows, 1, IF Len(rows) < limit THEN Len(rows) ELSE limit)

getTopRankingWithStats(totals, table, currentMonth, limit) ==
  Limit(getCompleteRanking(totals, table, currentMonth), limit)

getMonthlyRanking_AllPeriods(totals, table, month) ==
  LET monthly_votes == [l \in Languages |-> LanguageTotal(table, l)]
      order == OrderByPointsDescNameAsc(Languages, monthly_votes)
  IN  [i \in 1..Len(order) |->
         [id |-> order[i], name |-> name[order[i]], total_votes |-> totals[order[i]],
          month_points |-> monthly_votes[order[i]],
          month_rank |-> RowNumber(order, order[i])]]

getMonthlyRanking(totals, table, month) ==
  LET monthly_votes == MonthVotes(table, month)
      order == OrderByPointsDescNameAsc(Languages, monthly_votes)
  IN  [i \in 1..Len(order) |->
         [id |-> order[i], name |-> name[order[i]], total_votes |-> totals[order[i]],
          month_points |-> monthly_votes[order[i]],
          month_rank |-> RowNumber(order, order[i])]]

(* --------------------------- read endpoints ---------------------------- *)

TopLimit == 20

(* votes.forEach(vote => votePoints[vote.language_id] = vote.points): the  *)
(* rows are taken in the order of the query and a later row of a language  *)
(* overwrites the entry an earlier one made.                               *)
RECURSIVE forEachVote(_, _)
forEachVote(rows, votePoints) ==
  IF rows = <<>> THEN votePoints
  ELSE forEachVote(Tail(rows),
         [l \in DOMAIN votePoints \cup {Head(rows).language_id} |->
            IF l = Head(rows).language_id THEN Head(rows).points ELSE votePoints[l]])

UserVotes(userId, month, votePoints, monthlyPoints) ==
  [NoRead EXCEPT !.endpoint = "user/votes", !.user = userId, !.month = month,
                 !.ledger = Len(votes),
                 !.votePoints = votePoints,
                 !.totalPoints = monthlyPoints.total_points,
                 !.remainingPoints = 10 - monthlyPoints.total_points,
                 !.votesCount = monthlyPoints.votes_count]

Ranking(endpoint, month, rows) ==
  [NoRead EXCEPT !.endpoint = endpoint, !.month = month, !.ledger = Len(votes),
                 !.rows = rows]

NoRequestInProgress == \A p \in Proc : pc[p] = "idle"

GetUserVotes_CountsReads(userInputs) ==
  /\ NoRequestInProgress
  /\ \E userId \in userInputs :
    LET month == now
        rows == getUserMonthlyVotes(votes, userId, month)
        monthlyPoints == getUserMonthlyPoints(votes, userId, month)
    IN  lastRead' = [UserVotes(userId, month, forEachVote(rows, <<>>), monthlyPoints)
                       EXCEPT !.votesCount = lastRead.votesCount + 1]
  /\ UNCHANGED <<votes, total_votes, now, pc, req, vote, remainingPoints, response, ulv,
                 attempts, aux>>

(* GET /app/user/votes of a signed-in user, served while no vote request   *)
(* is in progress, so that its two queries read the same table.            *)
GetUserVotes(userInputs) ==
  /\ NoRequestInProgress
  /\ \E userId \in userInputs :
    LET month == now
        rows == getUserMonthlyVotes(votes, userId, month)
        monthlyPoints == getUserMonthlyPoints(votes, userId, month)
    IN  lastRead' = UserVotes(userId, month, forEachVote(rows, <<>>), monthlyPoints)
  /\ UNCHANGED <<votes, total_votes, now, pc, req, vote, remainingPoints, response, ulv,
                 attempts, aux>>

(* dbUtils.getCompleteRanking().                                           *)
GetCompleteRanking ==
  /\ lastRead' = Ranking("complete", now, getCompleteRanking(total_votes, votes, now))
  /\ UNCHANGED <<votes, total_votes, now, pc, req, vote, remainingPoints, response, ulv,
                 attempts, aux>>

(* dbUtils.getMonthlyRanking(month).                                       *)
GetMonthlyRanking ==
  /\ \E month \in Months :
       lastRead' = Ranking("monthly", month, getMonthlyRanking(total_votes, votes, month))
  /\ UNCHANGED <<votes, total_votes, now, pc, req, vote, remainingPoints, response, ulv,
                 attempts, aux>>

(* GET /app/ranking.                                                       *)
GetRanking ==
  /\ lastRead' = Ranking("ranking", now,
                         getTopRankingWithStats(total_votes, votes, now, TopLimit))
  /\ UNCHANGED <<votes, total_votes, now, pc, req, vote, remainingPoints, response, ulv,
                 attempts, aux>>

(* ------------------------------ clock ---------------------------------- *)

(* The calendar month that getCurrentMonth reads moves on.                 *)
Tick ==
  /\ now + 1 \in Months
  /\ now' = now + 1
  /\ UNCHANGED <<votes, total_votes, pc, req, vote, remainingPoints, response, ulv, attempts, lastRead, aux>>

Next ==
  \/ \E p \in Proc : PostVote(p, RaceUsers, RaceLanguages, RacePoints)
  \/ \E p \in Proc : ValidateLanguageLimit(p)
  \/ \E p \in Proc : ValidateTotalPoints(p, MaxRaceVotes)
  \/ \E p \in Proc : AddVote(p)
  \/ \E p \in Proc : NewMonthlyPoints(p)
  \/ \E p \in Proc : AllLanguageVotes(p)
  \/ \E p \in Proc : Respond(p)
  \/ \E p \in Proc : UpdateLanguageVotesSelect(p)
  \/ \E p \in Proc : UpdateLanguageVotesUpdate(p)

Spec == Init /\ [][Next]_vars

NextSerial ==
  \/ PostVote(1, UserInputs, LanguageInputs, PointsInputs)
  \/ ValidateLanguageLimit(1)
  \/ ValidateTotalPoints(1, MaxVotes)
  \/ AddVote(1)
  \/ NewMonthlyPoints(1)
  \/ AllLanguageVotes(1)
  \/ Respond(1)
  \/ UpdateLanguageVotesSelect(1)
  \/ UpdateLanguageVotesUpdate(1)
  \/ Tick

SpecSerial == Init /\ [][NextSerial]_vars

SpecUsers == Init /\ [][NextUsers]_vars

SpecMigrations == Init /\ [][NextMigrations]_vars

SpecClient == Init /\ [][NextClient]_vars

SpecAdmin == Init /\ [][NextAdmin]_vars

NextReset == NextMigrations \/ ResetDb

SpecReset == Init /\ [][NextReset]_vars

SpecSeed == Init /\ [][NextSeed]_vars

NextSlots == SlotVote

SpecSlots == Init /\ [][NextSlots]_vars

NextStore ==
  \/ PostVote(1, StoreUsers, StoreLanguages, StorePoints)
  \/ ValidateLanguageLimit(1)
  \/ ValidateTotalPoints(1, MaxVotes)
  \/ AddVote(1)
  \/ AddVoteFails(1)
  \/ NewMonthlyPoints(1)
  \/ AllLanguageVotes(1)
  \/ QueryAfterInsertFails(1)
  \/ Respond(1)
  \/ UpdateLanguageVotesSelect(1)
  \/ UpdateLanguageVotesUpdate(1)
  \/ UpdateLanguageVotesFails(1)
  \/ UnhandledRejection(1)

SpecStore == Init /\ [][NextStore]_vars

NextRead ==
  \/ PostVote(1, ReadUsers, ReadLanguages, ReadPoints)
  \/ ValidateLanguageLimit(1)
  \/ ValidateTotalPoints(1, MaxVotes)
  \/ AddVote(1)
  \/ NewMonthlyPoints(1)
  \/ AllLanguageVotes(1)
  \/ Respond(1)
  \/ UpdateLanguageVotesSelect(1)
  \/ UpdateLanguageVotesUpdate(1)
  \/ Tick
  \/ GetUserVotes(ReadUsers)
  \/ GetCompleteRanking
  \/ GetMonthlyRanking
  \/ GetRanking

SpecRead == Init /\ [][NextRead]_vars

(* ======================= properties of the ledger ====================== *)

(* Sums over the ledger, written over row indices.                         *)
RECURSIVE SumOver(_, _)
SumOver(table, idxs) ==
  IF idxs = {} THEN 0
  ELSE LET i == CHOOSE j \in idxs : TRUE
       IN  table[i].points + SumOver(table, idxs \ {i})

UserMonthSum(table, u, m) ==
  SumOver(table, {i \in 1..Len(table) : table[i].user_id = u /\ table[i].vote_month = m})

UserItemMonthSum(table, u, l, m) ==
  SumOver(table, {i \in 1..Len(table) :
                    table[i].user_id = u /\ table[i].language_id = l /\ table[i].vote_month = m})

LanguageSum(table, l) ==
  SumOver(table, {i \in 1..Len(table) : table[i].language_id = l})


Held(p, kind) == pc[p] = "respond" /\ response[p].kind = kind

(* C1: when submissions run one after another from an empty ledger, no     *)
(* user has more than 10 points in any month.                              *)
C1_MonthlyCap ==
  \A u \in Users, m \in Months : UserMonthSum(votes, u, m) <= 10

(* A user has used exactly 10 points and a further submission is answered  *)
(* with the monthly-budget rejection.                                      *)
C1_Witness ==
  \E p \in Proc :
    /\ Held(p, "total")
    /\ UserMonthSum(votes, req[p].user, req[p].month) = 10
    /\ Len(votes) >= 2

(* C2: when submissions run one after another from an empty ledger, no     *)
(* user has more than 5 points on one language in any month.               *)
C2_LanguageCap ==
  \A u \in Users, l \in Languages, m \in Months :
    UserItemMonthSum(votes, u, l, m) <= 5

(* A user holds exactly 5 points on a language through two rows and a      *)
(* further submission for it is answered with the per-language rejection.  *)
C2_Witness ==
  \E p \in Proc :
    /\ Held(p, "language")
    /\ UserItemMonthSum(votes, req[p].user, req[p].languageId, req[p].month) = 5
    /\ Len(votes) >= 2
    /\ votes[1].language_id = votes[2].language_id

(* C3: the caps are checked only by the reads of validateAddVote; a        *)
(* request that has passed them is written whatever the ledger holds by    *)
(* then: its INSERT raises the user's monthly sum by the submitted points. *)
(* Two interleaved requests of one user are therefore both written.        *)
C3_InsertWithoutRecheck ==
  [][\A p \in Proc :
       (pc[p] = "addVote" /\ pc'[p] # "addVote")
         => UserMonthSum(votes', req[p].user, req[p].month)
              = UserMonthSum(votes, req[p].user, req[p].month) + ToInt(req[p].points)]_vars

(* Two requests of one user have both been answered with success and the   *)
(* user's monthly sum is above 10.                                         *)
C3_Witness ==
  \E p \in Proc, q \in Proc :
    /\ p # q
    /\ Held(p, "success") /\ Held(q, "success")
    /\ req[p].user = req[q].user /\ req[p].month = req[q].month
    /\ UserMonthSum(votes, req[p].user, req[p].month) > 10

(* The acceptance condition as the specification states it.                *)
AcceptCond(table, r) ==
  /\ IsInteger(r.points)
  /\ ToInt(r.points) >= 1 /\ ToInt(r.points) <= 5
  /\ UserItemMonthSum(table, r.user, r.languageId, r.month) + ToInt(r.points) <= 5
  /\ UserMonthSum(table, r.user, r.month) + ToInt(r.points) <= 10

ValidationRejected(p) ==
  Held(p, "range") \/ Held(p, "language") \/ Held(p, "total")

(* C4: validateAddVote accepts exactly when points is in 1..5, the user's  *)
(* points on the language plus points are at most 5 and the user's monthly *)
(* total plus points is at most 10.                                        *)
C4_AcceptanceExact ==
  \A p \in Proc :
    /\ pc[p] = "addVote" => AcceptCond(votes, req[p])
    /\ ValidationRejected(p) => ~AcceptCond(votes, req[p])

RangeFails(r) == r.points < Num(1) \/ r.points > Num(5)
ItemFails(table, r) ==
  Num(UserItemMonthSum(table, r.user, r.languageId, r.month)) + r.points > Num(5)
TotalFails(table, r) ==
  Num(UserMonthSum(table, r.user, r.month)) + r.points > Num(10)

EarliestFailing(table, r) ==
  IF RangeFails(r) THEN "range"
  ELSE IF ItemFails(table, r) THEN "language"
  ELSE IF TotalFails(table, r) THEN "total"
  ELSE "none"

(* C5: the range comparison is evaluated first, then the per-language cap, *)
(* then the monthly cap; a later check is reached only when the earlier    *)
(* ones passed, and a rejection carries the reason of the earliest check   *)
(* that fails.                                                             *)
C5_CheckOrder ==
  \A p \in Proc :
    /\ pc[p] = "validateLanguageLimit" => ~RangeFails(req[p])
    /\ pc[p] = "validateTotalPoints" => ~RangeFails(req[p]) /\ ~ItemFails(votes, req[p])
    /\ ValidationRejected(p) => response[p].kind = EarliestFailing(votes, req[p])

(* A submission that breaks both caps is answered with the per-language    *)
(* reason.                                                                 *)
C5_Witness ==
  \E p \in Proc :
    /\ Held(p, "language")
    /\ ItemFails(votes, req[p]) /\ TotalFails(votes, req[p])

(* C6: every authenticated submission that names a language and whose      *)
(* points value is not an integer in [1,5] is answered with the range      *)
(* reason before any cap is consulted.                                     *)
C6_RangeRejected ==
  \A p \in Proc :
    (/\ req[p].user # NoUser
     /\ req[p].languageId # 0
     /\ ~(IsInteger(req[p].points) /\ ToInt(req[p].points) >= 1 /\ ToInt(req[p].points) <= 5))
      => Held(p, "range")

(* C7: a per-language rejection reports the points the user holds on the   *)
(* language and the headroom 5 minus them; a monthly rejection reports the *)
(* headroom 10 minus the user's monthly total.                             *)
C7_Headroom ==
  \A p \in Proc :
    /\ Held(p, "language") =>
         /\ response[p].current
              = UserItemMonthSum(votes, req[p].user, req[p].languageId, req[p].month)
         /\ response[p].remaining
              = 5 - UserItemMonthSum(votes, req[p].user, req[p].languageId, req[p].month)
    /\ Held(p, "total") =>
         response[p].remaining = 10 - UserMonthSum(votes, req[p].user, req[p].month)

(* With 3 points on a language a request to add 3 is rejected reporting    *)
(* headroom 2.                                                             *)
C7_Witness ==
  \E p \in Proc :
    /\ Held(p, "language")
    /\ req[p].points = Num(3)
    /\ response[p].current = 3
    /\ response[p].remaining = 2

InValidation(state) ==
  state \in {"validateLanguageLimit", "validateTotalPoints", "addVote"}

(* C8: every step that starts, continues or rejects a validation leaves    *)
(* the votes table and every language's total_votes as they were and       *)
(* starts no updateLanguageVotes; a request answered with a validation     *)
(* rejection has stored no row.                                            *)
C8_RejectionWritesNothing ==
  [][\A p \in Proc :
       (\/ pc'[p] # pc[p] /\ InValidation(pc'[p])
        \/ pc[p] # "respond" /\ pc'[p] = "respond" /\ response'[p].status = 400)
         => /\ votes' = votes
            /\ total_votes' = total_votes
            /\ ulv' = ulv
            /\ vote'[p] = NoVote]_vars

(* A validation rejection is held while the ledger holds rows.             *)
C8_Witness ==
  \E p \in Proc :
    /\ ValidationRejected(p)
    /\ response[p].status = 400
    /\ Len(votes) = MaxVotes

SubmittedRow(table, r) ==
  [id |-> Len(table) + 1, user_id |-> r.user, language_id |-> r.languageId,
   points |-> ToInt(r.points), vote_month |-> r.month]

(* C9: the votes table changes only by the INSERT of an accepted           *)
(* submission, which appends one row carrying the submitted user,          *)
(* language, points and month and leaves every earlier row as it was.      *)
C9_AppendOnly ==
  [][/\ \A p \in Proc :
          (pc[p] = "addVote" /\ pc'[p] = "newMonthlyPoints")
            => votes' = Append(votes, SubmittedRow(votes, req[p]))
     /\ votes' # votes
          => \E p \in Proc :
               /\ pc[p] = "addVote" /\ pc'[p] = "newMonthlyPoints"
               /\ votes' = Append(votes, SubmittedRow(votes, req[p]))]_vars

(* A top-up is answered with success and the user's earlier row for the    *)
(* same language and month is still there beside the new one.              *)
C9_Witness ==
  \E p \in Proc :
    /\ Held(p, "success")
    /\ Len(votes) >= 2
    /\ response[p].vote = votes[2]
    /\ votes[1].user_id = votes[2].user_id
    /\ votes[1].language_id = votes[2].language_id
    /\ votes[1].vote_month = votes[2].vote_month

Quiescent ==
  \A p \in Proc : pc[p] = "idle" /\ ulv[p].stage = "idle"

(* C10: whenever no submission and no updateLanguageVotes call is in       *)
(* progress, every language's total_votes equals the sum of points of its  *)
(* rows.                                                                   *)
C10_TotalsConsistent ==
  Quiescent => \A l \in Languages : total_votes[l] = LanguageSum(votes, l)

Prior(table) == SubSeq(table, 1, Len(table) - 1)

(* C11: when submissions run one after another, the success payload of an  *)
(* accepted submission carries the row just written, remaining_points =    *)
(* 10 - (the user's monthly total before the submission + the submitted    *)
(* points) and language_total_points = the user's points on the language   *)
(* in the month before the submission + the submitted points.              *)
C11_SuccessPayload ==
  \A p \in Proc :
    Held(p, "success") =>
      /\ Len(votes) >= 1
      /\ response[p].vote = votes[Len(votes)]
      /\ response[p].remaining_points
           = 10 - (UserMonthSum(Prior(votes), req[p].user, req[p].month)
                     + ToInt(req[p].points))
      /\ response[p].language_total_points
           = UserItemMonthSum(Prior(votes), req[p].user, req[p].languageId, req[p].month)
               + ToInt(req[p].points)

(* 5 points on a language with no earlier allocation: remaining_points 5;  *)
(* and a top-up of 2 on a language holding 3 with 3 more elsewhere.        *)
C11_Witness ==
  \E p \in Proc :
    /\ Held(p, "success")
    /\ \/ /\ Len(votes) = 1
          /\ req[p].points = Num(5)
          /\ response[p].remaining_points = 5
          /\ response[p].language_total_points = 5
       \/ /\ Len(votes) = 3
          /\ req[p].points = Num(2)
          /\ response[p].remaining_points = 2
          /\ response[p].language_total_points = 5

InsertFailed(p) == attempts[p] >= 1 /\ vote[p] = NoVote

(* C12: a submission whose INSERT failed, or whose updateLanguageVotes     *)
(* call failed, is answered with the store-failure outcome (500), never    *)
(* with a validation rejection and never with the success payload.         *)
C12_NoSilentSuccess ==
  \A p \in Proc :
    (pc[p] = "respond" /\ (InsertFailed(p) \/ ulv[p].stage = "failed"))
      => response[p].kind = "store" /\ response[p].status = 500

(* C13: a store failure of the write is surfaced only after the INSERT has *)
(* been attempted a second time, and the INSERT is attempted at most twice *)
(* per submission.                                                         *)
C13_RetryOnce ==
  \A p \in Proc :
    /\ attempts[p] <= 2
    /\ (Held(p, "store") /\ InsertFailed(p)) => attempts[p] = 2

(* C14: a submission for a language id that is not in the languages table  *)
(* (and that the caps would admit) is answered with a not-found outcome,   *)
(* which is neither a validation rejection nor the store-failure outcome;  *)
(* and no row of the votes table refers to a language that does not exist. *)
C14_NotFound ==
  /\ \A i \in 1..Len(votes) : votes[i].language_id \in Languages
  /\ \A p \in Proc :
       (/\ pc[p] = "respond"
        /\ req[p].user # NoUser
        /\ req[p].languageId = MissingLanguage
        /\ AcceptCond(votes, req[p]))
         => response[p].kind = "notfound" /\ response[p].status = 404

(* C15: a vote request without a session is answered 401 in the step that  *)
(* receives it, whatever its body: it never enters validation (which holds *)
(* every ledger read of the handler), and the step changes neither the     *)
(* votes table nor the language totals and starts no updateLanguageVotes.  *)
C15_Unauthenticated ==
  [][\A p \in Proc :
       (pc[p] = "idle" /\ pc'[p] # "idle" /\ req'[p].user = NoUser)
         => /\ pc'[p] = "respond"
            /\ response'[p].kind = "auth"
            /\ response'[p].status = 401
            /\ votes' = votes
            /\ total_votes' = total_votes
            /\ ulv' = ulv]_vars

(* A request without a session and without a languageId is answered 401    *)
(* (not 400) while the ledger holds rows.                                  *)
C15_Witness ==
  \E p \in Proc :
    /\ Held(p, "auth")
    /\ response[p].status = 401
    /\ req[p].user = NoUser
    /\ req[p].languageId = 0
    /\ req[p].points = Num(6)
    /\ Len(votes) > 0

(* ===================== properties of the read side ===================== *)

(* The votes table as it was when the last read was served: rows are only  *)
(* ever appended.                                                          *)
LedgerAtRead == SubSeq(votes, 1, lastRead.ledger)

MonthLanguageSum(table, l, m) ==
  SumOver(table, {i \in 1..Len(table) : table[i].language_id = l /\ table[i].vote_month = m})

ListsEveryLanguageOnce(rows) ==
  /\ Len(rows) = Cardinality(Languages)
  /\ \A l \in Languages : \E i \in 1..Len(rows) : rows[i].id = l

(* C16: getCompleteRanking lists every language once with its total        *)
(* points, by total points descending and, among equal totals, by name     *)
(* ascending; rank_position is the 1-based position in the output, so the  *)
(* ranks are distinct and consecutive also among equal totals.             *)
C16_RankingOrder ==
  lastRead.endpoint = "complete" =>
    LET rows == lastRead.rows
    IN  /\ ListsEveryLanguageOnce(rows)
        /\ \A i \in 1..Len(rows) :
             /\ rows[i].rank_position = i
             /\ rows[i].total_votes = LanguageSum(LedgerAtRead, rows[i].id)
        /\ \A i \in 1..Len(rows), j \in 1..Len(rows) :
             i < j => \/ rows[i].total_votes > rows[j].total_votes
                      \/ /\ rows[i].total_votes = rows[j].total_votes
                         /\ rows[i].name < rows[j].name

(* Two languages tie with points: the one whose name comes first (it has   *)
(* the higher id) is rank 1, the other rank 2, the third language rank 3.  *)
C16_Witness ==
  /\ lastRead.endpoint = "complete"
  /\ lastRead.rows[1].total_votes > 0
  /\ lastRead.rows[1].total_votes = lastRead.rows[2].total_votes
  /\ lastRead.rows[1].id > lastRead.rows[2].id
  /\ lastRead.rows[2].rank_position = 2
  /\ lastRead.rows[3].rank_position = 3

(* C17: getMonthlyRanking(m) lists every language once, with month_points  *)
(* the sum of the points of its rows of month m only (0 when it has none), *)
(* by month_points descending then name ascending, month_rank being the    *)
(* 1-based position.                                                       *)
C17_MonthlyRanking ==
  lastRead.endpoint = "monthly" =>
    LET rows == lastRead.rows
    IN  /\ ListsEveryLanguageOnce(rows)
        /\ \A i \in 1..Len(rows) :
             /\ rows[i].month_rank = i
             /\ rows[i].month_points
                  = MonthLanguageSum(LedgerAtRead, rows[i].id, lastRead.month)
        /\ \A i \in 1..Len(rows), j \in 1..Len(rows) :
             i < j => \/ rows[i].month_points > rows[j].month_points
                      \/ /\ rows[i].month_points = rows[j].month_points
                         /\ rows[i].name < rows[j].name

(* The ranking of a month is served while the ledger also holds rows of    *)
(* the other month: a language with more lifetime points but none in the   *)
(* month is listed, with 0, below a language with fewer lifetime points.   *)
C17_Witness ==
  /\ lastRead.endpoint = "monthly"
  /\ \E i \in 1..lastRead.ledger : votes[i].vote_month # lastRead.month
  /\ lastRead.rows[1].month_points > 0
  /\ lastRead.rows[2].month_points = 0
  /\ lastRead.rows[1].total_votes < lastRead.rows[2].total_votes

(* C18: GET /app/ranking returns at most 20 languages, ordered by the      *)
(* points they got in the current month descending, then name ascending.   *)
C18_CurrentMonthTop ==
  lastRead.endpoint = "ranking" =>
    LET rows == lastRead.rows
    IN  /\ Len(rows) <= 20
        /\ \A i \in 1..Len(rows) :
             rows[i].current_month_points
               = MonthLanguageSum(LedgerAtRead, rows[i].id, lastRead.month)
        /\ \A i \in 1..Len(rows), j \in 1..Len(rows) :
             i < j => \/ rows[i].current_month_points > rows[j].current_month_points
                      \/ /\ rows[i].current_month_points = rows[j].current_month_points
                         /\ rows[i].name < rows[j].name

IsRead == pc' = pc /\ ulv' = ulv /\ now' = now

SameAnswer(a, b) ==
  /\ a.votePoints = b.votePoints
  /\ a.totalPoints = b.totalPoints
  /\ a.remainingPoints = b.remainingPoints
  /\ a.votesCount = b.votesCount

C20_UserStateConsistent ==
  lastRead.endpoint = "user/votes" =>
    /\ DOMAIN lastRead.votePoints
         = {l \in Languages :
              \E i \in 1..lastRead.ledger :
                /\ votes[i].user_id = lastRead.user
                /\ votes[i].vote_month = lastRead.month
                /\ votes[i].language_id = l}
    /\ \A l \in DOMAIN lastRead.votePoints :
         lastRead.votePoints[l]
           = UserItemMonthSum(LedgerAtRead, lastRead.user, l, lastRead.month)
    /\ SumValues(lastRead.votePoints) = lastRead.totalPoints
    /\ lastRead.remainingPoints = 10 - lastRead.totalPoints

(* ==================== independence of users and months ================= *)

RowsOfUser(table, u) ==
  LET IsOwn(row) == row.user_id = u
  IN  SelectSeq(table, IsOwn)

Moves(p) == pc'[p] # pc[p]

(* C21: a step of the vote handler changes the monthly and per-language    *)
(* sums of no user but the one whose accepted row it inserts; and each     *)
(* cap check decides, and reports the headroom, as it would on a ledger    *)
(* holding the rows of the submitting user alone, whatever other users     *)
(* have submitted and however the requests interleave.                     *)
C21_UserIndependence ==
  [][/\ \A u \in Users :
          (\E l \in Languages, m \in Months :
              UserItemMonthSum(votes', u, l, m) # UserItemMonthSum(votes, u, l, m))
            => \E p \in Proc : pc[p] = "addVote" /\ Moves(p) /\ req[p].user = u
     /\ \A p \in Proc :
          LET own == RowsOfUser(votes, req[p].user)
          IN  /\ (pc[p] = "validateLanguageLimit" /\ Moves(p))
                   => IF ItemFails(own, req[p])
                      THEN /\ pc'[p] = "respond"
                           /\ response'[p].kind = "language"
                           /\ response'[p].remaining
                                = 5 - UserItemMonthSum(own, req[p].user, req[p].languageId,
                                                       req[p].month)
                      ELSE pc'[p] = "validateTotalPoints"
              /\ (pc[p] = "validateTotalPoints" /\ Moves(p))
                   => IF TotalFails(own, req[p])
                      THEN /\ pc'[p] = "respond"
                           /\ response'[p].kind = "total"
                           /\ response'[p].remaining
                                = 10 - UserMonthSum(own, req[p].user, req[p].month)
                      ELSE pc'[p] = "addVote"]_vars

(* One user has spent 10 points and the other user's 5-point submission is *)
(* answered with success and full remaining budget 5.                      *)
C21_Witness ==
  \E p \in Proc, u \in Users :
    /\ u # req[p].user
    /\ UserMonthSum(votes, u, req[p].month) = 10
    /\ Held(p, "success")
    /\ response[p].remaining_points = 5

RowsOfMonth(table, m) ==
  LET IsInMonth(row) == row.vote_month = m
  IN  SelectSeq(table, IsInMonth)

(* C24: each cap check decides, and reports the headroom, as it would on a *)
(* ledger holding only the rows of the month of the submission: rows of    *)
(* another month change neither the decision nor the headroom.             *)
C24_PeriodIsolation ==
  [][\A p \in Proc :
       LET own == RowsOfMonth(votes, req[p].month)
       IN  /\ (pc[p] = "validateLanguageLimit" /\ Moves(p))
                => IF ItemFails(own, req[p])
                   THEN /\ pc'[p] = "respond"
                        /\ response'[p].kind = "language"
                        /\ response'[p].remaining
                             = 5 - UserItemMonthSum(own, req[p].user, req[p].languageId,
                                                    req[p].month)
                   ELSE pc'[p] = "validateTotalPoints"
           /\ (pc[p] = "validateTotalPoints" /\ Moves(p))
                => IF TotalFails(own, req[p])
                   THEN /\ pc'[p] = "respond"
                        /\ response'[p].kind = "total"
                        /\ response'[p].remaining
                             = 10 - UserMonthSum(own, req[p].user, req[p].month)
                   ELSE pc'[p] = "addVote"]_vars

(* A user who spent all 10 points in one month, 5 of them on a language,   *)
(* gives that language 5 points in the next month: success, 5 remaining.   *)
C24_Witness ==
  \E p \in Proc, m \in Months :
    /\ m # req[p].month
    /\ UserMonthSum(votes, req[p].user, m) = 10
    /\ UserItemMonthSum(votes, req[p].user, req[p].languageId, m) = 5
    /\ Held(p, "success")
    /\ req[p].points = Num(5)
    /\ response[p].remaining_points = 5
    /\ response[p].language_total_points = 5

(* ================================ users ================================ *)

RowOf(table, githubId) == CHOOSE i \in 1..Len(table) : table[i].github_id = githubId

Writes(c) == up[c].stage \in {"update", "insert"} /\ up'[c].stage # up[c].stage

(* C22: under every interleaving of upsertUser calls the users table has   *)
(* at most one row per github_id; the write of a call for a github_id that *)
(* has a row keeps the row's id and github_id and sets username and        *)
(* avatar_url to the supplied values, adding no row; the write of a call   *)
(* for a github_id without a row adds exactly one row with the supplied    *)
(* values; and no call ends in an exception.                               *)
C22_UpsertIdentity ==
  [][/\ \A i \in 1..Len(users'), j \in 1..Len(users') :
          users'[i].github_id = users'[j].github_id => i = j
     /\ \A c \in Calls :
          Writes(c) =>
            /\ up'[c].stage = "returned"
            /\ HasGithubId(users', up[c].githubId)
            /\ users'[RowOf(users', up[c].githubId)].username = up[c].username
            /\ users'[RowOf(users', up[c].githubId)].avatar_url = up[c].avatarUrl
            /\ IF HasGithubId(users, up[c].githubId)
               THEN /\ Len(users') = Len(users)
                    /\ RowOf(users', up[c].githubId) = RowOf(users, up[c].githubId)
                    /\ users'[RowOf(users', up[c].githubId)].id
                         = users[RowOf(users, up[c].githubId)].id
               ELSE Len(users') = Len(users) + 1]_vars

(* ============================= slot model ============================== *)

HoldersOf(table, u, m, points) ==
  {l \in Languages :
     \E i \in 1..Len(table) :
       /\ table[i].user_id = u /\ table[i].vote_month = m
       /\ table[i].language_id = l /\ table[i].points = points}

(* C23: when votes are admitted by validateVote of the slot model and      *)
(* stored by upsertVote, every user has in every month one row per         *)
(* language at most, at most one language at exactly 5 points, at most one *)
(* at exactly 3, at most one at exactly 2, and at most 10 points in all.   *)
C23_SlotModel ==
  /\ \A i \in 1..Len(slotVotes), j \in 1..Len(slotVotes) :
       (/\ slotVotes[i].user_id = slotVotes[j].user_id
        /\ slotVotes[i].language_id = slotVotes[j].language_id
        /\ slotVotes[i].vote_month = slotVotes[j].vote_month) => i = j
  /\ \A u \in Users, m \in Months :
       /\ Cardinality(HoldersOf(slotVotes, u, m, 5)) <= 1
       /\ Cardinality(HoldersOf(slotVotes, u, m, 3)) <= 1
       /\ Cardinality(HoldersOf(slotVotes, u, m, 2)) <= 1
       /\ UserMonthSum(slotVotes, u, m) <= 10

(* The three slots are held by three languages (10 points) after a revote  *)
(* replaced a row, and a vote for an occupied slot has been rejected.      *)
C23_Witness ==
  \E u \in Users, m \in Months :
    /\ Cardinality(HoldersOf(slotVotes, u, m, 5)) = 1
    /\ Cardinality(HoldersOf(slotVotes, u, m, 3)) = 1
    /\ Cardinality(HoldersOf(slotVotes, u, m, 2)) = 1
    /\ UserMonthSum(slotVotes, u, m) = 10
    /\ \E i \in 1..Len(slotVotes) : slotVotes[i].points = 5 /\ slotVotes[i].id # 1
    /\ slotVotes[1].points # 5
    /\ slotResult \in {"slot5", "slot3", "slot2"}

(* ============================= migrations ============================== *)

IsPrefix(a, b) == Len(a) <= Len(b) /\ a = SubSeq(b, 1, Len(a))

C26_RollbackRestores ==
  (/\ hist.restoring \in Versions
   /\ mig.stage = "end"
   /\ mig.result # "thrown") => FullyMigrated

(* =============================== client ================================ *)

InFlight == {c \in ClientCalls : calls[c].stage \in {"fetch", "update"}}

(* C27: while a voteForLanguage call of the component is in flight, the    *)
(* component's canVote is false for every language and points and no       *)
(* second call has sent a POST /app/vote; when no call is in flight,       *)
(* votingInProgress of the component is false.                             *)
C27_DoubleSubmitGuard ==
  /\ InFlight # {} =>
       /\ \A l \in Languages, points \in ClientPoints : ~canVote(app, l, points)
       /\ Cardinality(InFlight) <= 1
  /\ InFlight = {} => ~component.votingInProgress

(* ================================ admin ================================ *)

(* C28: the response of GET /app/admin/stats carries the statistics only   *)
(* when ADMIN_API_KEY is set and the Authorization header is "Bearer ",    *)
(* then the key, and nothing else; a response with an error carries no     *)
(* statistics.                                                             *)
C28_AdminStatsOnlyWithKey ==
  /\ adminStats.fields \cap StatsFields # {} =>
       /\ ADMIN_API_KEY # <<>>
       /\ adminStats.authorization = <<"Bearer", " ">> \o ADMIN_API_KEY
  /\ "error" \in adminStats.fields => adminStats.fields \cap StatsFields = {}

(* ============================== reset-db =============================== *)

(* C29: the reset-db script has not called resetDatabase and has not       *)
(* exited with 0 when NODE_ENV is production, and it has exited with 0     *)
(* only when resetDatabase has finished.                                   *)
C29_ResetOrdering ==
  /\ script.NODE_ENV = "production" =>
       script.exit # "0" /\ script.resetDatabase = "not called"
  /\ script.exit = "0" => script.resetDatabase = "finished"

(* =============================== seeding =============================== *)

RowsNamed(rows, n) == {i \in 1..Len(rows) : rows[i].name = n}

(* C30: no step removes a row of the languages table, changes the id or    *)
(* the name of a row or lowers its total_votes, and a step of              *)
(* seedLanguages leaves every row it finds as it is; no name has two rows, *)
(* and when seedLanguages has run to its end each seed language has        *)
(* exactly one row.                                                        *)
C30_SeedIdempotent ==
  [][/\ Len(catalog'.rows) >= Len(catalog.rows)
     /\ \A i \in 1..Len(catalog.rows) :
          /\ catalog'.rows[i].id = catalog.rows[i].id
          /\ catalog'.rows[i].name = catalog.rows[i].name
          /\ catalog'.rows[i].total_votes >= catalog.rows[i].total_votes
          /\ seeding' # seeding => catalog'.rows[i] = catalog.rows[i]
     /\ \A i \in 1..Len(catalog'.rows) :
          RowsNamed(catalog'.rows, catalog'.rows[i].name) = {i}
     /\ (seeding'.next = 0 /\ seeding'.runs > 0) =>
          \A k \in 1..Len(languages) :
            Cardinality(RowsNamed(catalog'.rows, languages[k])) = 1]_vars

(* A second seedLanguages has run to its end over rows that have votes.    *)
C30_Witness ==
  /\ seeding.runs = MaxSeedRuns
  /\ seeding.next = 0
  /\ catalog.languages_id_seq = MaxSeedRuns * Len(languages)
  /\ \A i \in 1..Len(catalog.rows) : catalog.rows[i].total_votes > 0
  /\ Len(catalog.rows) = Len(languages)

====
